---------------------------- MODULE Spec2Model ----------------------------
(***************************************************************************)
(* Model of the generated cryptographic primitives                         *)
(*   Cipher/examples/crypto_opcodes.py     rotl32, pack32be, xorarrays,    *)
(*                                         stringtobytes, gf256mul         *)
(*   Cipher/examples/caesar_cipher_demo.py stringtobytes, caesar_encrypt,  *)
(*                                         caesar_decrypt                  *)
(*                                                                         *)
(* Python integers are unbounded.  Values that stay below 2^31 are plain   *)
(* integers here; the 32-bit words of rotl32 and pack32be (which reach     *)
(* 2^32 - 1 and, before masking, 2^63) are represented by the set of the   *)
(* positions of their one bits, so that no width is lost.                  *)
(***************************************************************************)
EXTENDS Integers, Sequences, FiniteSets

VARIABLES
    fn,      \* the function under call
    pc,      \* position inside the call
    args,    \* the arguments the caller passed
    a,       \* gf256mul: local a
    b,       \* gf256mul: local b
    result,  \* gf256mul: local result
    i,       \* gf256mul: loop variable of `for i in range(8)` (iterations begun)
    ret,     \* value returned by the call
    ret2     \* value returned by the follow-up call made on ret

vars == <<fn, pc, args, a, b, result, i, ret, ret2>>

(***************************************************************************)
(* Bounds of the explored input space.                                     *)
(***************************************************************************)
\* gf256mul is explored on every pair of -Excess .. 255 + Excess
Excess == 2

(***************************************************************************)
(* Python's integer operators on small integers.                           *)
(***************************************************************************)
RECURSIVE Pow2(_)
\* 1 << n
Pow2(n) == IF n = 0 THEN 1 ELSE 2 * Pow2(n - 1)

RECURSIVE And(_, _)
\* x & m for a mask m >= 0; x may be negative (two's complement, sign extended):
\* bit k of x is floor(x / 2^k) mod 2
And(x, m) ==
    IF m = 0 THEN 0
    ELSE (x % 2) * (m % 2) + 2 * And(x \div 2, m \div 2)

RECURSIVE Xor(_, _)
\* x ^ y for x, y >= 0
Xor(x, y) ==
    IF x = 0 THEN y
    ELSE IF y = 0 THEN x
    ELSE ((x + y) % 2) + 2 * Xor(x \div 2, y \div 2)

\* x << n
Shl(x, n) == x * Pow2(n)

\* x >> n
Shr(x, n) == x \div Pow2(n)

(***************************************************************************)
(* gf256mul (crypto_opcodes.py 71-83)                                      *)
(***************************************************************************)
\* the order bug: the high bit is sampled after the shift instead of before
GfBodyShiftFirst(st) ==
    LET r1 == IF And(st.b, 1) # 0 THEN Xor(st.result, st.a) ELSE st.result
        a1 == And(Shl(st.a, 1), 255)
        high_bit == And(a1, 128)
        a2 == IF high_bit # 0 THEN Xor(a1, 27) ELSE a1
    IN  [a |-> a2, b |-> Shr(st.b, 1), result |-> r1]

\* the reduction constant of another polynomial (0x1D for 0x1B)
GfBodyPoly1D(st) ==
    LET r1 == IF And(st.b, 1) # 0 THEN Xor(st.result, st.a) ELSE st.result
        high_bit == And(st.a, 128)
        a1 == And(Shl(st.a, 1), 255)
        a2 == IF high_bit # 0 THEN Xor(a1, 29) ELSE a1
    IN  [a |-> a2, b |-> Shr(st.b, 1), result |-> r1]

\* the `& 0xFF` after the shift of a left out
GfBodyNoMask(st) ==
    LET r1 == IF And(st.b, 1) # 0 THEN Xor(st.result, st.a) ELSE st.result
        high_bit == And(st.a, 128)
        a1 == Shl(st.a, 1)
        a2 == IF high_bit # 0 THEN Xor(a1, 27) ELSE a1
    IN  [a |-> a2, b |-> Shr(st.b, 1), result |-> r1]

\* one pass through the body of the for loop, lines 76-82
GfBody(st) ==
    LET r1 == IF And(st.b, 1) # 0 THEN Xor(st.result, st.a) ELSE st.result
        high_bit == And(st.a, 128)
        a1 == And(Shl(st.a, 1), 255)
        a2 == IF high_bit # 0 THEN Xor(a1, 27) ELSE a1
    IN  [a |-> a2, b |-> Shr(st.b, 1), result |-> r1]

\* lines 72-74: result = 0; a &= 0xFF; b &= 0xFF
GfEnter ==
    /\ fn = "gf256mul" /\ pc = "entry"
    /\ result' = 0
    /\ a' = And(args[1], 255)
    /\ b' = And(args[2], 255)
    /\ i' = 0
    /\ pc' = "loop"
    /\ UNCHANGED <<fn, args, ret, ret2>>

\* lines 75-82: one iteration of `for i in range(8)`
GfIter ==
    /\ fn = "gf256mul" /\ pc = "loop" /\ i < 8
    /\ \E st \in {GfBody([a |-> a, b |-> b, result |-> result])} :
           /\ a' = st.a
           /\ b' = st.b
           /\ result' = st.result
    /\ i' = i + 1
    /\ UNCHANGED <<fn, pc, args, ret, ret2>>

\* line 83, after range(8) is exhausted: return result & 0xFF
GfReturn ==
    /\ fn = "gf256mul" /\ pc = "loop" /\ i = 8
    /\ ret' = And(result, 255)
    /\ pc' = "done"
    /\ UNCHANGED <<fn, args, a, b, result, i, ret2>>

RECURSIVE GfLoop(_, _)
\* the state after n more iterations
GfLoop(st, n) == IF n = 0 THEN st ELSE GfLoop(GfBody(st), n - 1)

\* the function as a whole
gf256mul(x, y) ==
    And(GfLoop([a |-> And(x, 255), b |-> And(y, 255), result |-> 0], 8).result, 255)

GfInputs == (0 - Excess) .. (255 + Excess)

InitGF ==
    /\ fn = "gf256mul" /\ pc = "entry"
    /\ args \in GfInputs \X GfInputs
    /\ a = 0 /\ b = 0 /\ result = 0 /\ i = 0
    /\ ret = 0 /\ ret2 = 0

NextGF == GfEnter \/ GfIter \/ GfReturn

SpecGF == InitGF /\ [][NextGF]_vars

(***************************************************************************)
(* GF(2^8) as polynomials over GF(2): a polynomial is the set of the       *)
(* exponents of its terms.                                                 *)
(***************************************************************************)
PolyOf(n) == {k \in 0..7 : (n \div Pow2(k)) % 2 = 1}

RECURSIVE PolyValFrom(_, _)
PolyValFrom(P, k) ==
    IF k > 7 THEN 0
    ELSE (IF k \in P THEN 1 ELSE 0) + 2 * PolyValFrom(P, k + 1)

\* the byte whose bits are the coefficients of a polynomial of degree < 8
PolyVal(P) == PolyValFrom(P, 0)

PolyAdd(P, Q) == (P \ Q) \cup (Q \ P)

RECURSIVE PolyMulFrom(_, _, _)
\* the sum of x^e * Q over the terms x^e of P with e >= k
PolyMulFrom(P, Q, k) ==
    IF k > 7 THEN {}
    ELSE PolyAdd(IF k \in P THEN {q + k : q \in Q} ELSE {},
                 PolyMulFrom(P, Q, k + 1))

\* carry-less product of two polynomials of degree < 8
PolyMul(P, Q) == PolyMulFrom(P, Q, 0)

\* x^8 + x^4 + x^3 + x + 1
AESPoly == {8, 4, 3, 1, 0}

RECURSIVE PolyModFrom(_, _)
\* long division: cancel the terms x^d, x^(d-1), ..., x^8 in turn
PolyModFrom(P, d) ==
    IF d < 8 THEN P
    ELSE PolyModFrom(IF d \in P THEN PolyAdd(P, {m + (d - 8) : m \in AESPoly})
                     ELSE P,
                     d - 1)

\* the remainder of a polynomial of degree <= 14 modulo AESPoly
PolyMod(P) == PolyModFrom(P, 14)

GF256Product(x, y) == PolyVal(PolyMod(PolyMul(PolyOf(x), PolyOf(y))))

\* the field's multiplication table
GF256Table == [x \in 0..255 |-> [y \in 0..255 |-> GF256Product(x, y)]]

\* C1: for all integers a and b, gf256mul(a, b) returns the product of
\* (a mod 256) and (b mod 256) in GF(2^8) modulo x^8+x^4+x^3+x+1, in [0,255]
C1_GfIsFieldProduct ==
    (fn = "gf256mul" /\ pc = "done") =>
        /\ ret \in 0..255
        /\ ret = GF256Table[args[1] % 256][args[2] % 256]

C1_Witness ==
    fn = "gf256mul" /\ pc = "done" /\ args = <<-1, -2>> /\ ret = 236

\* C6: gf256mul is commutative: for all bytes a and b,
\* gf256mul(a, b) = gf256mul(b, a)
C6_GfCommutative ==
    (fn = "gf256mul" /\ pc = "done" /\ args[1] \in 0..255 /\ args[2] \in 0..255) =>
        ret = gf256mul(args[2], args[1])

C6_Witness ==
    /\ fn = "gf256mul" /\ pc = "done" /\ args = <<87, 131>>
    /\ ret = 193 /\ gf256mul(131, 87) = 193

\* C10: loop invariant of gf256mul: before, between and after the 8
\* iterations a and result stay in [0,255] and result XOR (a * b in GF(2^8))
\* is the field product of the original masked operands; the loop runs
\* exactly 8 iterations, after which b = 0 and result is the value returned
C10_GfLoopInvariant ==
    (fn = "gf256mul" /\ pc # "entry") =>
        /\ i \in 0..8
        /\ a \in 0..255
        /\ result \in 0..255
        /\ b \in 0..255
        /\ Xor(result, GF256Table[a][b]) = GF256Table[args[1] % 256][args[2] % 256]
        /\ (i = 8) => (b = 0)
        /\ (pc = "done") => (i = 8 /\ ret = result)

C10_Witness ==
    /\ fn = "gf256mul" /\ pc = "loop" /\ args = <<87, 131>>
    /\ i = 2 /\ a = 71 /\ b = 32 /\ result = 249

(***************************************************************************)
(* Python's integer operators on wide integers >= 0, held as the set of    *)
(* the positions of their one bits.                                        *)
(***************************************************************************)
\* the wide form of an integer 0 <= n < 2^31
WBits(n) == {k \in 0..30 : (n \div Pow2(k)) % 2 = 1}

\* 0xFFFFFFFF
Mask32 == 0..31

\* X & M
WAnd(X, M) == X \cap M

\* X | Y
WOr(X, Y) == X \cup Y

\* X << n
WShl(X, n) == {k + n : k \in X}

\* X >> n
WShr(X, n) == {k - n : k \in {j \in X : j >= n}}

(***************************************************************************)
(* rotl32 (crypto_opcodes.py 18-22)                                        *)
(***************************************************************************)
\* the shift amount reduced by a truncating remainder (C's %), which keeps
\* the sign of a negative amount, instead of `& 31`
rotl32TruncRem(value, positions) ==
    LET v == WAnd(value, Mask32)
        p == IF positions >= 0 THEN positions % 32 ELSE 0 - ((0 - positions) % 32)
    IN  WAnd(WOr(WShl(v, p), WShr(v, 32 - p)), Mask32)

\* the final `& 0xFFFFFFFF` left out
rotl32NoFinalMask(value, positions) ==
    LET v == WAnd(value, Mask32)
        p == And(positions, 31)
    IN  WOr(WShl(v, p), WShr(v, 32 - p))

rotl32(value, positions) ==
    LET v == WAnd(value, Mask32)
        p == And(positions, 31)
    IN  WAnd(WOr(WShl(v, p), WShr(v, 32 - p)), Mask32)

\* a caller's rotl32(v, s)
RotCall ==
    /\ fn = "rotl32" /\ pc = "call"
    /\ ret' = rotl32(args[1], args[2])
    /\ pc' = "returned"
    /\ UNCHANGED <<fn, args, a, b, result, i, ret2>>

\* the caller rotates the result on by 32 - (s mod 32)
RotBack ==
    /\ fn = "rotl32" /\ pc = "returned"
    /\ ret2' = rotl32(ret, 32 - (args[2] % 32))
    /\ pc' = "done"
    /\ UNCHANGED <<fn, args, a, b, result, i, ret>>

\* shift amounts explored: -MaxRot .. MaxRot
MaxRot == 40

\* 0x12345678, 0x23456781, 0x81234567 and 0x00FF00A5
RotPatterns ==
    { WBits(305419896), WBits(591751041), WBits(19088743) \cup {31},
      WBits(16711845) }

\* every word with one bit, every word with one bit clear, 0, 0xFFFFFFFF
\* and the patterns
RotValues ==
    {{k} : k \in 0..31} \cup {Mask32 \ {k} : k \in 0..31}
        \cup {{}, Mask32} \cup RotPatterns

InitRot ==
    /\ fn = "rotl32" /\ pc = "call"
    /\ args \in RotValues \X ((0 - MaxRot) .. MaxRot)
    /\ a = 0 /\ b = 0 /\ result = 0 /\ i = 0
    /\ ret = {} /\ ret2 = {}

NextRot == RotCall \/ RotBack

SpecRot == InitRot /\ [][NextRot]_vars

\* C2: for every 32-bit v and every integer s, rotl32(v, s) is
\* ((v << r) | (v >> (32 - r))) mod 2^32 with r = s mod 32 >= 0, i.e. bit k
\* of v moves to bit (k + r) mod 32; r = 0 leaves v unchanged;
\* rotl32(0x12345678, 4) = 0x23456781, rotl32(0x80000000, 1) = 1,
\* rotl32(1, 31) = 0x80000000
C2_RotIsRotation ==
    (fn = "rotl32" /\ pc # "call") =>
        LET v == args[1]
            r == args[2] % 32
        IN  /\ ret = WAnd(WOr(WShl(v, r), WShr(v, 32 - r)), Mask32)
            /\ ret = {(k + r) % 32 : k \in v}
            /\ (r = 0) => (ret = v)
            /\ (args = <<WBits(305419896), 4>>) => (ret = WBits(591751041))
            /\ (args = <<{31}, 1>>) => (ret = {0})
            /\ (args = <<{0}, 31>>) => (ret = {31})

C2_Witness ==
    /\ fn = "rotl32" /\ pc = "returned"
    /\ args = <<WBits(305419896), -36>>
    /\ ret = WBits(19088743) \cup {31}

\* C3: rotation is invertible: rotl32(rotl32(v, s), 32 - (s mod 32)) = v
\* for all 32-bit v and all integers s, also when s mod 32 = 0
C3_RotInvertible ==
    (fn = "rotl32" /\ pc = "done") => (ret2 = args[1])

C3_Witness ==
    /\ fn = "rotl32" /\ pc = "done"
    /\ args = <<WBits(305419896), 4>>
    /\ ret = WBits(591751041) /\ ret2 = WBits(305419896)

\* the case s mod 32 = 0 of C3, where the second amount is 32
C3_WitnessZero ==
    /\ fn = "rotl32" /\ pc = "done"
    /\ args = <<WBits(305419896), -32>>
    /\ ret2 = WBits(305419896)

(***************************************************************************)
(* pack32be (crypto_opcodes.py 35-36)                                      *)
(***************************************************************************)
\* the bytes placed in little-endian order
pack32le(b0, b1, b2, b3) ==
    WOr(WOr(WOr(WShl(WBits(And(b3, 255)), 24),
                WShl(WBits(And(b2, 255)), 16)),
            WShl(WBits(And(b1, 255)), 8)),
        WBits(And(b0, 255)))

pack32be(b0, b1, b2, b3) ==
    WOr(WOr(WOr(WShl(WBits(And(b0, 255)), 24),
                WShl(WBits(And(b1, 255)), 16)),
            WShl(WBits(And(b2, 255)), 8)),
        WBits(And(b3, 255)))

\* a caller's pack32be(b0, b1, b2, b3)
PackCall ==
    /\ fn = "pack32be" /\ pc = "call"
    /\ ret' = pack32be(args[1], args[2], args[3], args[4])
    /\ pc' = "done"
    /\ UNCHANGED <<fn, args, a, b, result, i, ret2>>

\* 0x00 0x01 0x12 0x34 0x56 0x78 0xFF, and integers that are no bytes
PackInputs ==
    {0, 1, 18, 52, 86, 120, 255} \cup {-256}
        \cup ((0 - Excess) .. -1) \cup (256 .. (255 + Excess))

InitPack ==
    /\ fn = "pack32be" /\ pc = "call"
    /\ args \in PackInputs \X PackInputs \X PackInputs \X PackInputs
    /\ a = 0 /\ b = 0 /\ result = 0 /\ i = 0
    /\ ret = {} /\ ret2 = {}

NextPack == PackCall

SpecPack == InitPack /\ [][NextPack]_vars

\* the value of byte n (0 the least significant) of a wide integer
ByteAt(X, n) == PolyVal({k \in 0..7 : (8 * n + k) \in X})

\* C9: for all integers b0..b3, pack32be returns ((b0 mod 256) << 24) |
\* ((b1 mod 256) << 16) | ((b2 mod 256) << 8) | (b3 mod 256), in
\* [0, 2^32 - 1], b0 the most significant byte;
\* pack32be(0x12,0x34,0x56,0x78) = 0x12345678 and
\* pack32be(0xFF,0xFF,0xFF,0xFF) = 0xFFFFFFFF
C9_PackBigEndian ==
    (fn = "pack32be" /\ pc = "done") =>
        /\ ret \subseteq Mask32
        /\ ByteAt(ret, 3) = args[1] % 256
        /\ ByteAt(ret, 2) = args[2] % 256
        /\ ByteAt(ret, 1) = args[3] % 256
        /\ ByteAt(ret, 0) = args[4] % 256
        /\ (args = <<18, 52, 86, 120>>) => (ret = WBits(305419896))
        /\ (args = <<255, 255, 255, 255>>) => (ret = Mask32)

C9_Witness ==
    /\ fn = "pack32be" /\ pc = "done"
    /\ args = <<-1, 256, -256, 18>>
    /\ ret = (24..31) \cup {1, 4}

(***************************************************************************)
(* xorarrays (crypto_opcodes.py 47-49)                                     *)
(***************************************************************************)
\* min(x, y)
Min(x, y) == IF x <= y THEN x ELSE y

\* the result mask dropping the top bit (0x7F for 0xFF)
xorarraysMask7(arr1, arr2) ==
    LET min_len == Min(Len(arr1), Len(arr2))
    IN  [k \in 1..min_len |-> And(Xor(arr1[k], arr2[k]), 127)]

\* the length taken from the first array only
xorarraysLenFirst(arr1, arr2) ==
    [k \in 1..Len(arr1) |->
        IF k <= Len(arr2) THEN And(Xor(arr1[k], arr2[k]), 255) ELSE arr1[k]]

xorarrays(arr1, arr2) ==
    LET min_len == Min(Len(arr1), Len(arr2))
    IN  [k \in 1..min_len |-> And(Xor(arr1[k], arr2[k]), 255)]

\* a caller's xorarrays(a, b)
XorCall ==
    /\ fn = "xorarrays" /\ pc = "call"
    /\ ret' = xorarrays(args[1], args[2])
    /\ pc' = "returned"
    /\ UNCHANGED <<fn, args, a, b, result, i, ret2>>

\* the caller combines the result with b again
XorBack ==
    /\ fn = "xorarrays" /\ pc = "returned"
    /\ ret2' = xorarrays(ret, args[2])
    /\ pc' = "done"
    /\ UNCHANGED <<fn, args, a, b, result, i, ret>>

\* longest array explored
MaxLen == 3

\* 0xFF 0x5A, and 0x1A5, which is no byte
XorElems == {255, 90, 421}

RECURSIVE SeqsUpTo(_, _)
\* the sequences over S of length <= n
SeqsUpTo(S, n) ==
    IF n = 0 THEN {<<>>}
    ELSE LET shorter == SeqsUpTo(S, n - 1)
         IN  shorter \cup {Append(q, x) : q \in shorter, x \in S}

InitXor ==
    /\ fn = "xorarrays" /\ pc = "call"
    /\ args \in SeqsUpTo(XorElems, MaxLen) \X SeqsUpTo(XorElems, MaxLen)
    /\ a = 0 /\ b = 0 /\ result = 0 /\ i = 0
    /\ ret = <<>> /\ ret2 = <<>>

NextXor == XorCall \/ XorBack

SpecXor == InitXor /\ [][NextXor]_vars

\* bit n of x >= 0
BitOf(x, n) == (x \div Pow2(n)) % 2

IsByteSeq(q) == \A k \in 1..Len(q) : q[k] \in 0..255

\* C4: xorarrays(a, b) has length min(len(a), len(b)); element i is
\* (a[i] XOR b[i]) masked to 8 bits; the longer array's tail is dropped; an
\* empty input gives an empty result
C4_XorElementwise ==
    (fn = "xorarrays" /\ pc # "call") =>
        /\ Len(ret) = Min(Len(args[1]), Len(args[2]))
        /\ Len(ret) <= Len(args[1]) /\ Len(ret) <= Len(args[2])
        /\ \A k \in 1..Len(ret) :
              /\ ret[k] \in 0..255
              /\ \A n \in 0..7 :
                    BitOf(ret[k], n) =
                        (BitOf(args[1][k], n) + BitOf(args[2][k], n)) % 2
        /\ (args[1] = <<>> \/ args[2] = <<>>) => (ret = <<>>)

C4_Witness ==
    /\ fn = "xorarrays" /\ pc = "returned"
    /\ args = <<(<<90, 421>>), (<<255, 90, 90>>)>>
    /\ ret = <<165, 255>>

\* C5: XOR is self-inverse: xorarrays(xorarrays(a, b), b) = a for byte
\* sequences a and b with len(a) <= len(b)
C5_XorSelfInverse ==
    (/\ fn = "xorarrays" /\ pc = "done"
     /\ IsByteSeq(args[1]) /\ IsByteSeq(args[2])
     /\ Len(args[1]) <= Len(args[2])) =>
        ret2 = args[1]

C5_Witness ==
    /\ fn = "xorarrays" /\ pc = "done"
    /\ args = <<(<<90, 255>>), (<<255, 90, 90>>)>>
    /\ ret = <<165, 165>> /\ ret2 = <<90, 255>>

(***************************************************************************)
(* stringtobytes, caesar_encrypt, caesar_decrypt                           *)
(* (caesar_cipher_demo.py 18-52).  A character is a record holding its     *)
(* code point; a str is a sequence of characters.                          *)
(***************************************************************************)
\* ord(c)
ord(c) == c.codepoint

\* chr(n)
chr(n) == [codepoint |-> n]

\* the str with the given code points
Str(cps) == [k \in 1..Len(cps) |-> chr(cps[k])]

stringtobytes(str) == [k \in 1..Len(str) |-> And(ord(str[k]), 255)]

\* the shift reduced by a truncating remainder (C's %), which is negative
\* for a negative dividend
CaesarByteTruncRem(byte_val, shift) ==
    LET rem(x) == IF x >= 0 THEN x % 26 ELSE 0 - ((0 - x) % 26)
    IN  IF 65 <= byte_val /\ byte_val <= 90
          THEN rem(byte_val - 65 + shift) + 65
        ELSE IF 97 <= byte_val /\ byte_val <= 122
          THEN rem(byte_val - 97 + shift) + 97
        ELSE byte_val

\* lines 38-45: the byte appended to result_bytes for byte_val
CaesarByte(byte_val, shift) ==
    IF 65 <= byte_val /\ byte_val <= 90
      THEN ((byte_val - 65 + shift) % 26) + 65
    ELSE IF 97 <= byte_val /\ byte_val <= 122
      THEN ((byte_val - 97 + shift) % 26) + 97
    ELSE byte_val

caesar_encrypt(plaintext, shift) ==
    LET data_bytes == stringtobytes(plaintext)
        result_bytes == [k \in 1..Len(data_bytes) |-> CaesarByte(data_bytes[k], shift)]
    IN  [k \in 1..Len(result_bytes) |-> chr(result_bytes[k])]

\* the shift passed on without negation
caesar_decryptSameShift(ciphertext, shift) == caesar_encrypt(ciphertext, shift)

caesar_decrypt(ciphertext, shift) == caesar_encrypt(ciphertext, 0 - shift)

\* encrypted = caesar_encrypt(plaintext, k)
CaesarEncrypt ==
    /\ fn = "caesar" /\ pc = "call"
    /\ ret' = caesar_encrypt(args[1], args[2])
    /\ pc' = "encrypted"
    /\ UNCHANGED <<fn, args, a, b, result, i, ret2>>

\* decrypted = caesar_decrypt(encrypted, k)
CaesarDecrypt ==
    /\ fn = "caesar" /\ pc = "encrypted"
    /\ ret2' = caesar_decrypt(ret, args[2])
    /\ pc' = "done"
    /\ UNCHANGED <<fn, args, a, b, result, i, ret>>

\* shifts explored: -MaxShift .. MaxShift
MaxShift == 30

\* longest text explored, the demonstration's text apart
MaxText == 2

\* A Z a z m, space @ [ {, and U+0141, which is not ASCII
CaesarChars ==
    {chr(n) : n \in {65, 90, 97, 122, 109, 32, 64, 91, 123, 321}}

\* "The quick brown fox jumps over the lazy dog"
DemoText ==
    Str(<<
       84, 104, 101, 32, 113, 117, 105, 99, 107, 32, 98, 114, 111,
       119, 110, 32, 102, 111, 120, 32, 106, 117, 109, 112, 115,
       32, 111, 118, 101, 114, 32, 116, 104, 101, 32, 108, 97, 122,
       121, 32, 100, 111, 103
    >>)

InitCaesar ==
    /\ fn = "caesar" /\ pc = "call"
    /\ args \in (SeqsUpTo(CaesarChars, MaxText) \cup {DemoText})
                    \X ((0 - MaxShift) .. MaxShift)
    /\ a = 0 /\ b = 0 /\ result = 0 /\ i = 0
    /\ ret = <<>> /\ ret2 = <<>>

NextCaesar == CaesarEncrypt \/ CaesarDecrypt

SpecCaesar == InitCaesar /\ [][NextCaesar]_vars

IsAscii(str) == \A k \in 1..Len(str) : ord(str[k]) \in 0..127

\* C7: Caesar round trip: for every integer shift k and every plaintext P
\* of ASCII letters and punctuation,
\* caesar_decrypt(caesar_encrypt(P, k), k) = P
C7_CaesarRoundTrip ==
    (fn = "caesar" /\ pc = "done" /\ IsAscii(args[1])) => (ret2 = args[1])

C7_Witness ==
    /\ fn = "caesar" /\ pc = "done"
    /\ args = <<DemoText, 3>>
    /\ ret[1] = chr(87) /\ ret[43] = chr(106)
    /\ ret2 = DemoText

\* a round trip with a negative shift larger than the alphabet
C7_WitnessNegative ==
    /\ fn = "caesar" /\ pc = "done"
    /\ args = <<Str(<<65, 122>>), -29>>
    /\ ret = Str(<<88, 119>>)
    /\ ret2 = Str(<<65, 122>>)

\* C8: caesar_encrypt maps a byte in [65,90] to 65 + ((byte - 65 + shift)
\* mod 26) and a byte in [97,122] to 97 + ((byte - 97 + shift) mod 26), the
\* modulo non-negative, so that the case of a letter is kept for every
\* shift; every other byte is output unchanged; the output is as long as
\* the input
C8_CaesarBytewise ==
    (fn = "caesar" /\ pc # "call") =>
        /\ Len(ret) = Len(args[1])
        /\ \A k \in 1..Len(ret) :
              LET byte == ord(args[1][k]) % 256
                  out == ord(ret[k])
              IN  /\ (byte \in 65..90) =>
                        /\ out = 65 + ((byte - 65 + args[2]) % 26)
                        /\ out \in 65..90
                  /\ (byte \in 97..122) =>
                        /\ out = 97 + ((byte - 97 + args[2]) % 26)
                        /\ out \in 97..122
                  /\ (byte \notin 65..90 /\ byte \notin 97..122) => (out = byte)

C8_Witness ==
    /\ fn = "caesar" /\ pc = "encrypted"
    /\ args = <<Str(<<65, 64>>), -3>>
    /\ ret = Str(<<88, 64>>)

(***************************************************************************)
(* The library as a whole: any one of the calls above.                     *)
(***************************************************************************)
Init == InitGF \/ InitRot \/ InitPack \/ InitXor \/ InitCaesar

Next == NextGF \/ NextRot \/ NextPack \/ NextXor \/ NextCaesar

Spec == Init /\ [][Next]_vars

=============================================================================
